---- MODULE Spec2Model ----
(***************************************************************************)
(* A model of package espeak (doc.go): synthesis Contexts, the global      *)
(* mutex that serialises the engine binding, and the engine binding as     *)
(* the Contexts see it.  Goroutine g drives Context g.                     *)
(***************************************************************************)
EXTENDS Integers, Sequences, FiniteSets, TLC

\* ------------------------------------------------------------ constants

\* Voice genders (doc.go 202-207).
Unknown == 0
Male == 1
Female == 2
Neutral == 3

\* SynthEventType values (doc.go 247-268).
EventWord == 1
EventSentence == 2
EventMark == 3
EventPlay == 4
EventEnd == 5
EventMsgTerminated == 6
EventPhoneme == 7

\* Engine constants (cgo -godefs output).
sOK == 0
espeakEVENT_LIST_TERMINATED == 0

\* The most callback invocations one engine synthesis call makes.
MaxCallbacks == 2

\* Goroutines; goroutine g owns Context g and nobody else touches it.
Goroutines == {1, 2}

\* No goroutine: the value of the mutex when it is free.
NoOwner == 0

VARIABLES
    ctx,        \* ctx[g]: the Context driven by goroutine g
    lock,       \* var lock sync.Mutex: NoOwner, or the goroutine that locked it
    engine,     \* the engine: the parameters and voice last pushed to it
    pc,         \* pc[g]: where goroutine g is in the operation it runs
    call,       \* call[g]: arguments and locals of the operation g runs
    explicit,   \* history: explicit[g] is the set of parameters of ctx[g] set by a setter
    delivered,  \* history: what the engine delivered to ctx[g] in its current/last synthesis
    prior       \* history: the last SynthesizeText on ctx[g] to return succeeded and left output

vars == <<ctx, lock, engine, pc, call, explicit, delivered, prior>>

\* ------------------------------------------------------------ values

ZeroVoice == [name |-> "", language |-> "", gender |-> Unknown, age |-> 0, variant |-> 0]

\* The zero value of a Context (doc.go 36-61).
ZeroContext ==
    [Samples |-> <<>>, Events |-> <<>>,
     rate |-> 0, volume |-> 0, pitch |-> 0, tone |-> 0,
     voice |-> ZeroVoice, isInit |-> FALSE]

\* Return values: a plain return, an int, a panic (the caller recovers and goes on), an
\* error, a voice list.
RetOK == [kind |-> "ok", val |-> 0, msg |-> "", voices |-> <<>>]
RetInt(n) == [kind |-> "int", val |-> n, msg |-> "", voices |-> <<>>]
RetPanic(m) == [kind |-> "panic", val |-> 0, msg |-> m, voices |-> <<>>]
RetVoices(vs) == [kind |-> "voices", val |-> Len(vs), msg |-> "", voices |-> vs]

\* An error value: nil, or *Error{Code, Message} / errors.New(Message).
NilErr == [isErr |-> FALSE, code |-> sOK, msg |-> ""]
RetErr(e) == IF e.isErr THEN [kind |-> "error", val |-> e.code, msg |-> e.msg, voices |-> <<>>]
             ELSE RetOK

\* ------------------------------------------------------------ Context, locally

\* func (ctx *Context) init()
initWrongDefault(cx) ==
    IF cx.isInit THEN cx
    ELSE [cx EXCEPT !.isInit = TRUE, !.rate = 175, !.volume = 100, !.pitch = 50, !.tone = 0]

initAlways(cx) ==
    [cx EXCEPT !.isInit = TRUE, !.rate = 175, !.volume = 100, !.pitch = 50, !.tone = 50]

init(cx) ==
    IF cx.isInit THEN cx
    ELSE [cx EXCEPT !.isInit = TRUE, !.rate = 175, !.volume = 100, !.pitch = 50, !.tone = 50]

\* The getters: the Context after the call and the value returned.
Rate(cx) == LET c1 == init(cx) IN [ctx |-> c1, ret |-> RetInt(c1.rate)]
Volume(cx) == LET c1 == init(cx) IN [ctx |-> c1, ret |-> RetInt(c1.volume)]
Pitch(cx) == LET c1 == init(cx) IN [ctx |-> c1, ret |-> RetInt(c1.pitch)]
Range(cx) == LET c1 == init(cx) IN [ctx |-> c1, ret |-> RetInt(c1.tone)]

\* The setters: the Context after the call, what came back, and whether the value was stored.

\* SetRate putting the defaults back before it stores the rate.
SetRateResetting(cx, wpm) ==
    IF wpm < 80 \/ wpm > 450
    THEN [ctx |-> cx, ret |-> RetPanic("espeak: Context.SetRate: wpm must be between 80 and 450"),
          stored |-> FALSE]
    ELSE [ctx |-> [initAlways(cx) EXCEPT !.rate = wpm], ret |-> RetOK, stored |-> TRUE]

SetRate(cx, wpm) ==
    IF wpm < 80 \/ wpm > 450
    THEN [ctx |-> cx, ret |-> RetPanic("espeak: Context.SetRate: wpm must be between 80 and 450"),
          stored |-> FALSE]
    ELSE [ctx |-> [init(cx) EXCEPT !.rate = wpm], ret |-> RetOK, stored |-> TRUE]

SetVolumeThenInit(cx, percentage) ==
    IF percentage < 0
    THEN [ctx |-> cx, ret |-> RetPanic("espeak: Context.SetVolume: percentage must not be negative"),
          stored |-> FALSE]
    ELSE [ctx |-> init([cx EXCEPT !.volume = percentage]), ret |-> RetOK, stored |-> TRUE]

SetVolume(cx, percentage) ==
    IF percentage < 0
    THEN [ctx |-> cx, ret |-> RetPanic("espeak: Context.SetVolume: percentage must not be negative"),
          stored |-> FALSE]
    ELSE [ctx |-> [init(cx) EXCEPT !.volume = percentage], ret |-> RetOK, stored |-> TRUE]

SetPitchInitFirst(cx, pitch) ==
    IF pitch < 0 \/ pitch > 100
    THEN [ctx |-> init(cx),
          ret |-> RetPanic("espeak: Context.SetPitch: pitch must be between 0 and 100"),
          stored |-> FALSE]
    ELSE [ctx |-> [init(cx) EXCEPT !.pitch = pitch], ret |-> RetOK, stored |-> TRUE]

SetPitch(cx, pitch) ==
    IF pitch < 0 \/ pitch > 100
    THEN [ctx |-> cx, ret |-> RetPanic("espeak: Context.SetPitch: pitch must be between 0 and 100"),
          stored |-> FALSE]
    ELSE [ctx |-> [init(cx) EXCEPT !.pitch = pitch], ret |-> RetOK, stored |-> TRUE]

SetRangeNoUpperBound(cx, tone) ==
    IF tone < 0
    THEN [ctx |-> cx, ret |-> RetPanic("espeak: Context.SetRange: tone must be between 0 and 100"),
          stored |-> FALSE]
    ELSE [ctx |-> [init(cx) EXCEPT !.tone = tone], ret |-> RetOK, stored |-> TRUE]

SetRange(cx, tone) ==
    IF tone < 0 \/ tone > 100
    THEN [ctx |-> cx, ret |-> RetPanic("espeak: Context.SetRange: tone must be between 0 and 100"),
          stored |-> FALSE]
    ELSE [ctx |-> [init(cx) EXCEPT !.tone = tone], ret |-> RetOK, stored |-> TRUE]

\* SetVoice without the check of the name: it always goes on to SetVoiceProperties.
SetVoiceUnchecked(name) ==
    [delegate |-> TRUE,
     q |-> [name |-> name, language |-> "", gender |-> Unknown, age |-> 0, variant |-> 0],
     err |-> NilErr]

\* func (ctx *Context) SetVoice(name string) error, up to its call of SetVoiceProperties:
\* whether it delegates, with which query, and the error it returns when it does not.
SetVoice(name) ==
    IF name = ""
    THEN [delegate |-> FALSE, q |-> ZeroVoice,
          err |-> [isErr |-> TRUE, code |-> 0, msg |-> "espeak: missing name in SetVoice"]]
    ELSE [delegate |-> TRUE,
          q |-> [name |-> name, language |-> "", gender |-> Unknown, age |-> 0, variant |-> 0],
          err |-> NilErr]

\* func (ctx *Context) SetVoiceProperties, after validVoice has returned err.
SetVoicePropertiesStoreFirst(cx, q, err) ==
    [ctx |-> [init(cx) EXCEPT !.voice = q], ret |-> RetErr(err)]

SetVoicePropertiesNonZero(cx, q, err) ==
    IF err.isErr
    THEN [ctx |-> cx, ret |-> RetErr(err)]
    ELSE [ctx |-> [init(cx) EXCEPT
                     !.voice.name = IF q.name = "" THEN @ ELSE q.name,
                     !.voice.language = IF q.language = "" THEN @ ELSE q.language,
                     !.voice.gender = IF q.gender = Unknown THEN @ ELSE q.gender,
                     !.voice.age = IF q.age = 0 THEN @ ELSE q.age,
                     !.voice.variant = IF q.variant = 0 THEN @ ELSE q.variant],
          ret |-> RetOK]

SetVoiceProperties(cx, q, err) ==
    IF err.isErr
    THEN [ctx |-> cx, ret |-> RetErr(err)]
    ELSE [ctx |-> [init(cx) EXCEPT !.voice = q], ret |-> RetOK]

\* ------------------------------------------------------------ the mutex

\* lock.Lock(): whether goroutine g gets the mutex now (it blocks otherwise), and the
\* mutex once it has it.
MutexLockNoWait(l, g) == [acquired |-> TRUE, lock |-> g]

MutexLock(l, g) == [acquired |-> l = NoOwner, lock |-> g]

\* lock.Unlock()
MutexUnlock(l, g) == NoOwner

\* ------------------------------------------------------------ the engine binding

\* The engine before anything was pushed to it.
NotPushed == -1
EngineInit ==
    [rate |-> NotPushed, volume |-> NotPushed, pitch |-> NotPushed, tone |-> NotPushed,
     voice |-> ZeroVoice]

\* The voices the engine reports.
Catalog ==
    << [Name |-> "en", Languages |-> <<[Priority |-> 2, Name |-> "en"]>>,
        Identifier |-> "gmw/en", Gender |-> Male, Age |-> 0],
       [Name |-> "de", Languages |-> <<[Priority |-> 5, Name |-> "de"]>>,
        Identifier |-> "gmw/de", Gender |-> Female, Age |-> 30] >>

\* A field of the query left at its zero value does not constrain the match.
Matches(v, q) ==
    /\ q.name = "" \/ q.name = v.Name
    /\ q.language = "" \/ \E i \in 1..Len(v.Languages) : v.Languages[i].Name = q.language
    /\ q.gender = Unknown \/ q.gender = v.Gender
    /\ q.age = 0 \/ q.age = v.Age

EngineError(m) == [isErr |-> TRUE, code |-> 1, msg |-> m]

\* setRate, setVolume, setPitch, setTone: the engine takes the value unless it fails.
setRate(e, v, fault) ==
    IF fault THEN [engine |-> e, err |-> EngineError("setRate")]
    ELSE [engine |-> [e EXCEPT !.rate = v], err |-> NilErr]

setVolume(e, v, fault) ==
    IF fault THEN [engine |-> e, err |-> EngineError("setVolume")]
    ELSE [engine |-> [e EXCEPT !.volume = v], err |-> NilErr]

setPitch(e, v, fault) ==
    IF fault THEN [engine |-> e, err |-> EngineError("setPitch")]
    ELSE [engine |-> [e EXCEPT !.pitch = v], err |-> NilErr]

setTone(e, v, fault) ==
    IF fault THEN [engine |-> e, err |-> EngineError("setTone")]
    ELSE [engine |-> [e EXCEPT !.tone = v], err |-> NilErr]

\* setVoice: the engine selects by the query; it accepts only a query some voice matches.
setVoice(e, q, fault) ==
    IF ~fault /\ \E i \in 1..Len(Catalog) : Matches(Catalog[i], q)
    THEN [engine |-> [e EXCEPT !.voice = q], err |-> NilErr]
    ELSE [engine |-> e, err |-> EngineError("setVoice")]

listVoices == Catalog

getSampleRate == 22050

\* ------------------------------------------------------------ the event decoder

\* One raw event record of the engine: the type tag, the fixed fields, and the union
\* region id, which the engine fills according to the type.
RawEvent(type, pos, len, audio, id) ==
    [type |-> type, text_position |-> pos, length |-> len, audio_position |-> audio, id |-> id]

NoId == [number |-> 0, name |-> "", string |-> ""]
Sentinel == RawEvent(espeakEVENT_LIST_TERMINATED, 0, 0, 0, NoId)

\* One record to a SynthEvent with the union region read all three ways whatever the
\* type tag.
decodeEventEveryReading(r) ==
    [Type |-> r.type,
     TextPosition |-> r.text_position,
     Length |-> r.length,
     AudioPosition |-> r.audio_position * 1000000,
     Number |-> r.id.number,
     Name |-> r.id.name,
     Phoneme |-> r.id.string]

\* One record to a SynthEvent: the union region is read by the type tag; the engine's
\* audio position is in milliseconds, a time.Duration in nanoseconds.
decodeEvent(r) ==
    [Type |-> r.type,
     TextPosition |-> r.text_position,
     Length |-> r.length,
     AudioPosition |-> r.audio_position * 1000000,
     Number |-> IF r.type \in {EventWord, EventSentence} THEN r.id.number ELSE 0,
     Name |-> IF r.type \in {EventMark, EventPlay} THEN r.id.name ELSE "",
     Phoneme |-> IF r.type = EventPhoneme THEN r.id.string ELSE ""]

\* The records of one callback's block, the list-terminated records left out and the
\* records after them decoded too.
RECURSIVE decodeEventsToTheEnd(_)
decodeEventsToTheEnd(block) ==
    IF block = <<>>
    THEN <<>>
    ELSE (IF Head(block).type = espeakEVENT_LIST_TERMINATED
          THEN <<>>
          ELSE <<decodeEvent(Head(block))>>) \o decodeEventsToTheEnd(Tail(block))

\* The records of one callback's block, up to the list-terminated record.
RECURSIVE decodeEvents(_)
decodeEvents(block) ==
    IF block = <<>> \/ Head(block).type = espeakEVENT_LIST_TERMINATED
    THEN <<>>
    ELSE <<decodeEvent(Head(block))>> \o decodeEvents(Tail(block))

\* A block is well formed when a list-terminated record ends its records; one that ends
\* before it is truncated: the bytes left are fewer than a record.
WellFormed(block) ==
    \E i \in 1..Len(block) : block[i].type = espeakEVENT_LIST_TERMINATED

\* What a call that the decoder's consistency fault has aborted leaves with: a panic,
\* no engine error.
ConsistencyFault == [isErr |-> TRUE, code |-> -1, msg |-> "consistency fault"]

\* ------------------------------------------------------------ the engine's synthesis

\* synthesize(text, ctx), entered: the Context's output of an earlier call is dropped.
synthesizeBeginKeeping(cx) == cx

synthesizeBegin(cx) == [cx EXCEPT !.Samples = <<>>, !.Events = <<>>]

\* One callback invocation: the samples are appended as they are, the event block decoded.
synthesizeCallback(cx, chunk) ==
    [cx EXCEPT !.Samples = @ \o chunk.samples, !.Events = @ \o decodeEvents(chunk.events)]

\* synthesize(text, ctx), returning.
synthesizeEnd(fault) == IF fault THEN EngineError("synthesize") ELSE NilErr

\* What one callback invocation may deliver.
ChunkA ==
    [samples |-> <<3, -3>>,
     events |-> << RawEvent(EventWord, 1, 5, 0, [number |-> 1, name |-> "", string |-> ""]),
                   Sentinel,
                   RawEvent(EventMark, 9, 0, 40, [number |-> 0, name |-> "m1", string |-> ""]) >>]
ChunkB ==
    [samples |-> <<7>>,
     events |-> << RawEvent(EventEnd, 13, 0, 120, NoId), Sentinel >>]
ChunkTruncated ==
    [samples |-> <<>>,
     events |-> << RawEvent(EventSentence, 1, 12, 0, [number |-> 1, name |-> "", string |-> ""]) >>]

\* ------------------------------------------------------------ state

\* Arguments and locals of the operation a goroutine runs.
NoCall == [q |-> ZeroVoice, text |-> "", err |-> NilErr, ncb |-> 0]

NoOutput == [samples |-> <<>>, events |-> <<>>]

Init ==
    /\ ctx = [g \in Goroutines |-> ZeroContext]
    /\ lock = NoOwner
    /\ engine = EngineInit
    /\ pc = [g \in Goroutines |-> "idle"]
    /\ call = [g \in Goroutines |-> NoCall]
    /\ explicit = [g \in Goroutines |-> {}]
    /\ delivered = [g \in Goroutines |-> NoOutput]
    /\ prior = [g \in Goroutines |-> FALSE]

\* ------------------------------------------------------------ operations that stay in the Context

\* func SampleRate() int, entered
CallSampleRate(g) ==
    /\ pc[g] = "idle"
    /\ pc' = [pc EXCEPT ![g] = "sr_call"]
    /\ UNCHANGED <<ctx, lock, engine, call, explicit, delivered, prior>>

\* return getSampleRate()
SampleRateReturn(g) ==
    /\ pc[g] = "sr_call"
    /\ pc' = [pc EXCEPT ![g] = "idle"]
    /\ UNCHANGED <<ctx, lock, engine, call, explicit, delivered, prior>>

\* What a getter or a setter, given as its result r, does to goroutine g's state; r.ret
\* goes back to the caller.
Local(g, r) ==
    /\ pc[g] = "idle"
    /\ ctx' = [ctx EXCEPT ![g] = r.ctx]
    /\ UNCHANGED <<lock, engine, pc, call, delivered, prior>>

CallRate(g) == Local(g, Rate(ctx[g])) /\ UNCHANGED explicit
CallVolume(g) == Local(g, Volume(ctx[g])) /\ UNCHANGED explicit
CallPitch(g) == Local(g, Pitch(ctx[g])) /\ UNCHANGED explicit
CallRange(g) == Local(g, Range(ctx[g])) /\ UNCHANGED explicit

Marked(g, r, param) ==
    [explicit EXCEPT ![g] = IF r.stored THEN @ \cup {param} ELSE @]

CallSetRate(g, wpm) ==
    LET r == SetRate(ctx[g], wpm) IN Local(g, r) /\ explicit' = Marked(g, r, "rate")
CallSetVolume(g, percentage) ==
    LET r == SetVolume(ctx[g], percentage) IN Local(g, r) /\ explicit' = Marked(g, r, "volume")
CallSetPitch(g, pitch) ==
    LET r == SetPitch(ctx[g], pitch) IN Local(g, r) /\ explicit' = Marked(g, r, "pitch")
CallSetRange(g, tone) ==
    LET r == SetRange(ctx[g], tone) IN Local(g, r) /\ explicit' = Marked(g, r, "tone")

\* ------------------------------------------------------------ operations that take the mutex

\* lock.Lock() of ListVoices, validVoice and Context.synthesize: g waits at *_lock.
AfterLock(g) ==
    CASE pc[g] = "lv_lock" -> "lv_call"
      [] pc[g] = "vv_lock" -> "vv_call"
      [] pc[g] = "sy_lock" -> "sy_rate"

\* Lock, with the operations waiting at the positions in unlocked going on without it.
LockBut(g, unlocked) ==
    /\ pc[g] \in {"lv_lock", "vv_lock", "sy_lock"}
    /\ IF pc[g] \in unlocked
       THEN UNCHANGED lock
       ELSE MutexLock(lock, g).acquired /\ lock' = MutexLock(lock, g).lock
    /\ pc' = [pc EXCEPT ![g] = AfterLock(g)]
    /\ UNCHANGED <<ctx, engine, call, explicit, delivered, prior>>

LockButValidVoice(g) == LockBut(g, {"vv_lock"})
LockButListVoices(g) == LockBut(g, {"lv_lock"})

Lock(g) ==
    /\ pc[g] \in {"lv_lock", "vv_lock", "sy_lock"}
    /\ MutexLock(lock, g).acquired
    /\ lock' = MutexLock(lock, g).lock
    /\ pc' = [pc EXCEPT ![g] = AfterLock(g)]
    /\ UNCHANGED <<ctx, engine, call, explicit, delivered, prior>>

\* func ListVoices() []*Voice
CallListVoices(g) ==
    /\ pc[g] = "idle"
    /\ pc' = [pc EXCEPT ![g] = "lv_lock"]
    /\ UNCHANGED <<ctx, lock, engine, call, explicit, delivered, prior>>

\* return listVoices(), and the deferred lock.Unlock()
ListVoicesReturn(g) ==
    /\ pc[g] = "lv_call"
    /\ lock' = MutexUnlock(lock, g)
    /\ pc' = [pc EXCEPT ![g] = "idle"]
    /\ UNCHANGED <<ctx, engine, call, explicit, delivered, prior>>

\* SetVoiceProperties taking the mutex itself before it calls validVoice, which takes it.
CallSetVoicePropertiesLocking(g, q) ==
    /\ pc[g] = "idle"
    /\ MutexLock(lock, g).acquired
    /\ lock' = MutexLock(lock, g).lock
    /\ pc' = [pc EXCEPT ![g] = "vv_lock"]
    /\ call' = [call EXCEPT ![g] = [NoCall EXCEPT !.q = q]]
    /\ UNCHANGED <<ctx, engine, explicit, delivered, prior>>

\* func (ctx *Context) SetVoiceProperties, entered: it calls validVoice first.
CallSetVoiceProperties(g, q) ==
    /\ pc[g] = "idle"
    /\ pc' = [pc EXCEPT ![g] = "vv_lock"]
    /\ call' = [call EXCEPT ![g] = [NoCall EXCEPT !.q = q]]
    /\ UNCHANGED <<ctx, lock, engine, explicit, delivered, prior>>

\* func (ctx *Context) SetVoice(name string) error
CallSetVoice(g, name) ==
    /\ pc[g] = "idle"
    /\ IF SetVoice(name).delegate
       THEN CallSetVoiceProperties(g, SetVoice(name).q)
       ELSE UNCHANGED vars   \* returns SetVoice(name).err

\* validVoice: return setVoice(name, language, gender, age, variant)
validVoice(g, fault) ==
    /\ pc[g] = "vv_call"
    /\ engine' = setVoice(engine, call[g].q, fault).engine
    /\ call' = [call EXCEPT ![g].err = setVoice(engine, call[g].q, fault).err]
    /\ pc' = [pc EXCEPT ![g] = "vv_unlock"]
    /\ UNCHANGED <<ctx, lock, explicit, delivered, prior>>

\* validVoice's deferred lock.Unlock()
validVoiceReturn(g) ==
    /\ pc[g] = "vv_unlock"
    /\ lock' = MutexUnlock(lock, g)
    /\ pc' = [pc EXCEPT ![g] = "svp_commit"]
    /\ UNCHANGED <<ctx, engine, call, explicit, delivered, prior>>

\* SetVoiceProperties after validVoice: return the error, or init and store the query.
SetVoicePropertiesReturn(g) ==
    /\ pc[g] = "svp_commit"
    /\ ctx' = [ctx EXCEPT ![g] = SetVoiceProperties(ctx[g], call[g].q, call[g].err).ctx]
    /\ pc' = [pc EXCEPT ![g] = "idle"]
    /\ call' = [call EXCEPT ![g] = NoCall]
    /\ UNCHANGED <<lock, engine, explicit, delivered, prior>>

\* func (ctx *Context) SynthesizeText(text string) error: ctx.init(), then ctx.synthesize(text)
CallSynthesizeText(g, text) ==
    /\ pc[g] = "idle"
    /\ ctx' = [ctx EXCEPT ![g] = init(ctx[g])]
    /\ pc' = [pc EXCEPT ![g] = "sy_lock"]
    /\ call' = [call EXCEPT ![g] = [NoCall EXCEPT !.text = text]]
    /\ UNCHANGED <<lock, engine, explicit, delivered, prior>>

\* One push after which Context.synthesize goes on to the next whatever the engine said.
PushOnward(g, here, next, r) ==
    /\ pc[g] = here
    /\ engine' = r.engine
    /\ call' = [call EXCEPT ![g].err = r.err]
    /\ pc' = [pc EXCEPT ![g] = next]
    /\ UNCHANGED <<ctx, lock, explicit, delivered, prior>>

\* One push of Context.synthesize: on an error it returns (through the deferred unlock).
Push(g, here, next, r) ==
    /\ pc[g] = here
    /\ engine' = r.engine
    /\ call' = [call EXCEPT ![g].err = r.err]
    /\ pc' = [pc EXCEPT ![g] = IF r.err.isErr THEN "sy_unlock" ELSE next]
    /\ UNCHANGED <<ctx, lock, explicit, delivered, prior>>

PushRate(g, fault) ==
    Push(g, "sy_rate", "sy_volume", setRate(engine, ctx[g].rate, fault))
PushVolume(g, fault) ==
    Push(g, "sy_volume", "sy_pitch", setVolume(engine, ctx[g].volume, fault))
PushPitch(g, fault) ==
    Push(g, "sy_pitch", "sy_tone", setPitch(engine, ctx[g].pitch, fault))
PushTone(g, fault) ==
    Push(g, "sy_tone", "sy_voice", setTone(engine, ctx[g].tone, fault))
\* The last push with the mutex let go right after it, before the engine's synthesis.
PushVoiceUnlocking(g, fault) ==
    LET r == setVoice(engine, ctx[g].voice, fault)
    IN  /\ pc[g] = "sy_voice"
        /\ engine' = r.engine
        /\ call' = [call EXCEPT ![g].err = r.err]
        /\ pc' = [pc EXCEPT ![g] = IF r.err.isErr THEN "sy_unlock" ELSE "sy_synth"]
        /\ lock' = MutexUnlock(lock, g)
        /\ UNCHANGED <<ctx, explicit, delivered, prior>>

PushVoice(g, fault) ==
    Push(g, "sy_voice", "sy_synth", setVoice(engine, ctx[g].voice, fault))

\* return synthesize(text, ctx): the engine's synthesis call is entered ...
SynthesizeBegin(g) ==
    /\ pc[g] = "sy_synth"
    /\ ctx' = [ctx EXCEPT ![g] = synthesizeBegin(ctx[g])]
    /\ delivered' = [delivered EXCEPT ![g] = NoOutput]
    /\ pc' = [pc EXCEPT ![g] = "sy_cb"]
    /\ UNCHANGED <<lock, engine, call, explicit, prior>>

\* ... calls back with samples and an event block, some number of times ...
SynthesizeCallback(g, chunk) ==
    /\ pc[g] = "sy_cb"
    /\ call[g].ncb < MaxCallbacks
    /\ WellFormed(chunk.events)
    /\ ctx' = [ctx EXCEPT ![g] = synthesizeCallback(ctx[g], chunk)]
    /\ delivered' = [delivered EXCEPT ![g] =
                        [samples |-> @.samples \o chunk.samples,
                         events |-> @.events \o decodeEvents(chunk.events)]]
    /\ call' = [call EXCEPT ![g].ncb = @ + 1]
    /\ UNCHANGED <<lock, engine, pc, explicit, prior>>

\* ... or with a truncated event block: the decoder's consistency fault is a panic, which
\* unwinds Context.synthesize through its deferred unlock before anything is appended.
SynthesizeCallbackFault(g, chunk) ==
    /\ pc[g] = "sy_cb"
    /\ call[g].ncb < MaxCallbacks
    /\ ~WellFormed(chunk.events)
    /\ call' = [call EXCEPT ![g].err = ConsistencyFault]
    /\ pc' = [pc EXCEPT ![g] = "sy_unlock"]
    /\ UNCHANGED <<ctx, lock, engine, explicit, delivered, prior>>

\* ... and returns.
SynthesizeEnd(g, fault) ==
    /\ pc[g] = "sy_cb"
    /\ call' = [call EXCEPT ![g].err = synthesizeEnd(fault)]
    /\ pc' = [pc EXCEPT ![g] = "sy_unlock"]
    /\ UNCHANGED <<ctx, lock, engine, explicit, delivered, prior>>

\* Context.synthesize with lock.Unlock() before its last return and not deferred: a
\* return on an error, or a panic, goes by it.
synthesizeReturnNotDeferred(g) ==
    /\ pc[g] = "sy_unlock"
    /\ lock' = IF call[g].err.isErr THEN lock ELSE MutexUnlock(lock, g)
    /\ prior' = [prior EXCEPT ![g] =
                    ~call[g].err.isErr /\ ctx[g].Samples # <<>> /\ ctx[g].Events # <<>>]
    /\ pc' = [pc EXCEPT ![g] = "idle"]
    /\ call' = [call EXCEPT ![g] = NoCall]
    /\ UNCHANGED <<ctx, engine, explicit, delivered>>

\* Context.synthesize's deferred lock.Unlock(); SynthesizeText returns its error, or the
\* panic goes on to the caller, who recovers from it.
synthesizeReturn(g) ==
    /\ pc[g] = "sy_unlock"
    /\ lock' = MutexUnlock(lock, g)
    /\ prior' = [prior EXCEPT ![g] =
                    ~call[g].err.isErr /\ ctx[g].Samples # <<>> /\ ctx[g].Events # <<>>]
    /\ pc' = [pc EXCEPT ![g] = "idle"]
    /\ call' = [call EXCEPT ![g] = NoCall]
    /\ UNCHANGED <<ctx, engine, explicit, delivered>>

\* ------------------------------------------------------------ specifications

\* The inputs of one goroutine's calls.
Inputs(rates, volumes, pitches, tones, names, queries, texts, chunks) ==
    [rates |-> rates, volumes |-> volumes, pitches |-> pitches, tones |-> tones,
     names |-> names, queries |-> queries, texts |-> texts, chunks |-> chunks]

\* One step of goroutine g, its inputs drawn from in.
Step(g, in) ==
    \/ CallSampleRate(g) \/ SampleRateReturn(g)
    \/ CallRate(g) \/ CallVolume(g) \/ CallPitch(g) \/ CallRange(g)
    \/ \E wpm \in in.rates : CallSetRate(g, wpm)
    \/ \E percentage \in in.volumes : CallSetVolume(g, percentage)
    \/ \E pitch \in in.pitches : CallSetPitch(g, pitch)
    \/ \E tone \in in.tones : CallSetRange(g, tone)
    \/ CallListVoices(g) \/ ListVoicesReturn(g)
    \/ \E name \in in.names : CallSetVoice(g, name)
    \/ \E q \in in.queries : CallSetVoiceProperties(g, q)
    \/ Lock(g)
    \/ \E fault \in BOOLEAN : validVoice(g, fault)
    \/ validVoiceReturn(g) \/ SetVoicePropertiesReturn(g)
    \/ \E text \in in.texts : CallSynthesizeText(g, text)
    \/ \E fault \in BOOLEAN :
          \/ PushRate(g, fault) \/ PushVolume(g, fault) \/ PushPitch(g, fault)
          \/ PushTone(g, fault) \/ PushVoice(g, fault)
    \/ SynthesizeBegin(g)
    \/ \E chunk \in in.chunks : SynthesizeCallback(g, chunk)
    \/ \E chunk \in in.chunks : SynthesizeCallbackFault(g, chunk)
    \/ \E fault \in BOOLEAN : SynthesizeEnd(g, fault)
    \/ synthesizeReturn(g)

QueryDe == [name |-> "", language |-> "de", gender |-> Female, age |-> 30, variant |-> 1]
QueryMixed == [name |-> "en", language |-> "de", gender |-> Unknown, age |-> 0, variant |-> 0]

\* Two goroutines, each on its own Context and each configuring it its own way.
ConcurrentInputs(g) ==
    IF g = 1
    THEN Inputs({80}, {-1}, {101}, {101}, {"en"}, {QueryMixed}, {"Hello world."}, {ChunkA, ChunkTruncated})
    ELSE Inputs({451}, {0}, {-1}, {-1}, {""}, {QueryDe}, {"Hello world."}, {ChunkB, ChunkTruncated})

Next == \E g \in Goroutines : Step(g, ConcurrentInputs(g))

Spec == Init /\ [][Next]_vars

\* The steps of goroutine g that follow lock.Lock() up to the deferred lock.Unlock():
\* calls of the engine binding that return, and returns.
UnderLock(g) ==
    \/ ListVoicesReturn(g)
    \/ \E fault \in BOOLEAN : validVoice(g, fault)
    \/ validVoiceReturn(g)
    \/ \E fault \in BOOLEAN :
          \/ PushRate(g, fault) \/ PushVolume(g, fault) \/ PushPitch(g, fault)
          \/ PushTone(g, fault) \/ PushVoice(g, fault)
    \/ SynthesizeBegin(g)
    \/ \E fault \in BOOLEAN : SynthesizeEnd(g, fault)
    \/ synthesizeReturn(g)

\* The steps of goroutine g that finish an operation it is in, outside the mutex.
Finish(g) == SampleRateReturn(g) \/ SetVoicePropertiesReturn(g)

\* A goroutine inside an operation goes on, every engine call returns, and sync.Mutex
\* hands the mutex to a goroutine that keeps waiting for it (its starvation mode).
Fairness ==
    \A g \in Goroutines :
        /\ WF_vars(UnderLock(g))
        /\ WF_vars(Finish(g))
        /\ SF_vars(Lock(g))

\* Two goroutines that leave the parameters at their defaults: goroutine 1's voice
\* queries are rejected and its syntheses get a truncated event block, goroutine 2's
\* are accepted and well formed.
FairInputs(g) ==
    IF g = 1
    THEN Inputs({79}, {-1}, {101}, {-1}, {"nope"}, {QueryMixed}, {"Hello world."},
                {ChunkTruncated})
    ELSE Inputs({451}, {-1}, {-1}, {101}, {""}, {QueryDe}, {"Hello world."}, {ChunkB})

NextFair == \E g \in Goroutines : Step(g, FairInputs(g))

SpecFair == Init /\ [][NextFair]_vars /\ Fairness

\* The most records before the list-terminated record in an event block to decode.
MaxRecords == 2

\* A record of the type at text position pos whose union region is not zero: read as
\* an integer, as a name or as a phoneme string it gives something.
RecordOf(type, pos) ==
    RawEvent(type, pos, 3, 20 * pos, [number |-> 2, name |-> "nm", string |-> "ph"])

\* Event blocks: up to MaxRecords records of any types, the list-terminated record,
\* and then nothing or one more record.
DecodeBlocks ==
    LET types == UNION {[1..n -> EventWord..EventPhoneme] : n \in 0..MaxRecords}
    IN  {[i \in 1..Len(ts) |-> RecordOf(ts[i], i)] \o <<Sentinel>> \o after :
            ts \in types, after \in {<<>>, <<RecordOf(EventMark, 9)>>}}

\* A callback with one sample, which tells the number of records of its block.
DecodeChunks == {[samples |-> <<Len(block)>>, events |-> block] : block \in DecodeBlocks}

\* One goroutine synthesizing: the first callback of a synthesis delivers any of the
\* event blocks, the later ones deliver ChunkB.
NextDecode ==
    \/ \E text \in {"Hello world."} : CallSynthesizeText(1, text)
    \/ Lock(1)
    \/ PushRate(1, FALSE) \/ PushVolume(1, FALSE) \/ PushPitch(1, FALSE)
    \/ PushTone(1, FALSE) \/ PushVoice(1, FALSE)
    \/ SynthesizeBegin(1)
    \/ \E chunk \in (IF call[1].ncb = 0 THEN DecodeChunks ELSE {ChunkB}) :
          SynthesizeCallback(1, chunk)
    \/ SynthesizeEnd(1, FALSE)
    \/ synthesizeReturn(1)

SpecDecode == Init /\ [][NextDecode]_vars

\* One goroutine on one Context, with more inputs.
SequentialInputs ==
    Inputs({79, 80, 450, 451}, {-1, 0, 101}, {-1, 0, 100, 101}, {-1, 0, 101},
           {"", "en", "nope"}, {QueryDe, QueryMixed},
           {"Hello world."}, {ChunkA, ChunkTruncated})

NextSeq == Step(1, SequentialInputs)

SpecSeq == Init /\ [][NextSeq]_vars

\* ------------------------------------------------------------ properties

\* The parameters and voice query a Context stores, as the engine holds them.
Stored(cx) ==
    [rate |-> cx.rate, volume |-> cx.volume, pitch |-> cx.pitch, tone |-> cx.tone,
     voice |-> cx.voice]

\* Where a goroutine is about to call, or is inside, a function of the engine binding
\* from ListVoices, validVoice or Context.synthesize.
EngineCallPcs ==
    {"lv_call", "vv_call", "sy_rate", "sy_volume", "sy_pitch", "sy_tone", "sy_voice",
     "sy_synth", "sy_cb"}

\* Where the engine's synthesis call of a SynthesizeText runs.
SynthesisPcs == {"sy_synth", "sy_cb"}

\* Where an engine-touching operation is in progress: from lock.Lock() returning to
\* the deferred lock.Unlock().
EngineOpPcs == EngineCallPcs \cup {"vv_unlock", "sy_unlock"}

\* C1: while the engine's synthesis step of a SynthesizeText on Context g runs, the
\* rate, volume, pitch, range and voice query last pushed to the engine are the ones
\* Context g stores, whatever the other goroutine does on its own Context.
C1_SynthesisUsesOwnParameters ==
    \A g \in Goroutines : pc[g] \in SynthesisPcs => engine = Stored(ctx[g])

\* Context 2 is being synthesized while goroutine 1, whose Context stores another rate,
\* volume and voice, is inside SynthesizeText too.
C1_Witness ==
    /\ pc[2] = "sy_cb" /\ call[2].ncb = 1
    /\ pc[1] = "sy_lock"
    /\ ctx[1].rate # ctx[2].rate /\ ctx[1].volume # ctx[2].volume
    /\ ctx[1].voice # ctx[2].voice

\* C2: at most one engine-touching operation is in progress, and the goroutine running
\* it holds the mutex, from before the first push until the engine synthesis has returned.
C2_OneEngineOperationUnderLock ==
    /\ \A g \in Goroutines : pc[g] \in EngineOpPcs => lock = g
    /\ Cardinality({g \in Goroutines : pc[g] \in EngineOpPcs}) <= 1

\* A synthesis has had a callback while the other goroutine waits for the mutex.
C2_Witness ==
    /\ pc[1] = "sy_cb" /\ call[1].ncb >= 1 /\ lock = 1
    /\ pc[2] \in {"lv_lock", "vv_lock", "sy_lock"}

\* C3 as claimed: every call into the engine binding, the sample-rate query of
\* SampleRate included, is made by a goroutine holding the mutex.
C3_EveryEngineCallUnderLock ==
    \A g \in Goroutines : pc[g] \in EngineCallPcs \cup {"sr_call"} => lock = g

\* C3, amended: every call into the engine binding but the sample-rate query is made
\* by a goroutine holding the mutex; SampleRate calls getSampleRate without it.
C3_EngineCallsButSampleRateUnderLock ==
    \A g \in Goroutines :
        /\ pc[g] \in EngineCallPcs => lock = g
        /\ pc[g] = "sr_call" => lock # g

\* The sample rate is queried while the other goroutine's synthesis holds the mutex.
C3_Witness ==
    /\ pc[1] = "sr_call"
    /\ pc[2] = "sy_synth" /\ lock = 2

\* Values to probe the setters with: inside the documented bounds, and outside them.
RateInBounds == {80, 175, 300, 450}
VolumeInBounds == {0, 100, 101, 1000}
PitchInBounds == {0, 50, 100}
RateOutOfBounds == {-1, 0, 79, 451}
VolumeOutOfBounds == {-100, -1}
PitchOutOfBounds == {-1, 101, 175}

\* C4: whatever state a Context is in, initialized or not, a setter called with a value
\* inside the documented bounds returns normally and the matching getter then returns
\* that value.
C4_SetThenGet ==
    \A g \in Goroutines :
        /\ \A v \in RateInBounds :
              /\ SetRate(ctx[g], v).ret = RetOK
              /\ Rate(SetRate(ctx[g], v).ctx).ret = RetInt(v)
        /\ \A v \in VolumeInBounds :
              /\ SetVolume(ctx[g], v).ret = RetOK
              /\ Volume(SetVolume(ctx[g], v).ctx).ret = RetInt(v)
        /\ \A v \in PitchInBounds :
              /\ SetPitch(ctx[g], v).ret = RetOK
              /\ Pitch(SetPitch(ctx[g], v).ctx).ret = RetInt(v)
              /\ SetRange(ctx[g], v).ret = RetOK
              /\ Range(SetRange(ctx[g], v).ctx).ret = RetInt(v)

\* All four setters have stored a value on Context 1, and Context 2 is still the zero
\* value.
C4_Witness ==
    /\ explicit[1] = {"rate", "volume", "pitch", "tone"}
    /\ ctx[1].rate = 450 /\ ctx[1].volume = 101 /\ ctx[1].pitch = 0 /\ ctx[1].tone = 0
    /\ Rate(ctx[1]).ret = RetInt(450)
    /\ ~ctx[2].isInit

\* A step of goroutine g that is a call of a setter with a value outside its bounds.
RejectedSetterStep(g) ==
    \/ \E v \in SequentialInputs.rates : (v < 80 \/ v > 450) /\ CallSetRate(g, v)
    \/ \E v \in SequentialInputs.volumes : v < 0 /\ CallSetVolume(g, v)
    \/ \E v \in SequentialInputs.pitches : (v < 0 \/ v > 100) /\ CallSetPitch(g, v)
    \/ \E v \in SequentialInputs.tones : (v < 0 \/ v > 100) /\ CallSetRange(g, v)

\* C5: a setter called with a value outside its bounds panics at the call and leaves
\* the Context as it was: parameters, voice query, Samples, Events and isInit.
C5_RejectedSetterChangesNothing ==
    [][\A g \in Goroutines :
          /\ RejectedSetterStep(g) => ctx' = ctx
          /\ \A v \in RateOutOfBounds :
                SetRate(ctx[g], v).ctx = ctx[g] /\ SetRate(ctx[g], v).ret.kind = "panic"
          /\ \A v \in VolumeOutOfBounds :
                SetVolume(ctx[g], v).ctx = ctx[g] /\ SetVolume(ctx[g], v).ret.kind = "panic"
          /\ \A v \in PitchOutOfBounds :
                /\ SetPitch(ctx[g], v).ctx = ctx[g] /\ SetPitch(ctx[g], v).ret.kind = "panic"
                /\ SetRange(ctx[g], v).ctx = ctx[g] /\ SetRange(ctx[g], v).ret.kind = "panic"
      ]_vars

\* A Context with parameters, a voice query and output to lose, where setters are
\* called; and one not initialized yet.
C5_Witness ==
    /\ pc[1] = "idle"
    /\ ctx[1].isInit /\ ctx[1].rate = 80 /\ ctx[1].tone = 0
    /\ ctx[1].voice = QueryDe
    /\ ctx[1].Samples # <<>> /\ ctx[1].Events # <<>>
    /\ ~ctx[2].isInit

\* C6: as long as no numeric setter has stored a value on a Context, its getters
\* return 175, 100, 50 and 50, and these are the values a SynthesizeText on it has
\* pushed to the engine when the engine's synthesis runs.
C6_DefaultsUntilSet ==
    \A g \in Goroutines :
        explicit[g] = {} =>
            /\ Rate(ctx[g]).ret = RetInt(175)
            /\ Volume(ctx[g]).ret = RetInt(100)
            /\ Pitch(ctx[g]).ret = RetInt(50)
            /\ Range(ctx[g]).ret = RetInt(50)
            /\ pc[g] \in SynthesisPcs =>
                  /\ engine.rate = 175 /\ engine.volume = 100
                  /\ engine.pitch = 50 /\ engine.tone = 50

\* No setter has stored a value on Context 1, a voice query has, an earlier synthesis
\* has returned, and the engine's synthesis of another one runs.
C6_Witness ==
    /\ explicit[1] = {}
    /\ ctx[1].voice = QueryDe
    /\ prior[1]
    /\ pc[1] = "sy_cb"

\* A step of goroutine g that is a call of the setter of the parameter.
SetterStep(g, param) ==
    CASE param = "rate" -> \E v \in SequentialInputs.rates : CallSetRate(g, v)
      [] param = "volume" -> \E v \in SequentialInputs.volumes : CallSetVolume(g, v)
      [] param = "pitch" -> \E v \in SequentialInputs.pitches : CallSetPitch(g, v)
      [] param = "tone" -> \E v \in SequentialInputs.tones : CallSetRange(g, v)

\* C7: once a setter has stored a parameter, only a call of that same setter changes
\* it: no other step of any operation puts the default, or anything else, in its place.
C7_NoDefaultReapplied ==
    [][\A g \in Goroutines : \A param \in explicit[g] :
          Stored(ctx'[g])[param] # Stored(ctx[g])[param] => SetterStep(g, param)
      ]_vars

\* All four parameters were stored; a SynthesizeText that came later has failed at a
\* push and is about to return.
C7_Witness ==
    /\ explicit[1] = {"rate", "volume", "pitch", "tone"}
    /\ ctx[1].rate = 80 /\ ctx[1].volume = 0 /\ ctx[1].pitch = 100 /\ ctx[1].tone = 0
    /\ pc[1] = "sy_unlock" /\ call[1].err.isErr

\* Where SetVoiceProperties is inside validVoice.
ValidVoicePcs == {"vv_lock", "vv_call", "vv_unlock"}

\* C8: from its call to its return, a SetVoice or SetVoiceProperties whose query the
\* engine rejects changes no field of the Context, and what it returns is the engine's
\* error.
C8_RejectedVoiceChangesNothing ==
    [][\A g \in Goroutines :
          /\ pc'[g] \in ValidVoicePcs \/ pc[g] \in ValidVoicePcs => ctx'[g] = ctx[g]
          /\ pc[g] = "svp_commit" /\ call[g].err.isErr =>
                /\ ctx'[g] = ctx[g]
                /\ call[g].err = EngineError("setVoice")
                /\ SetVoiceProperties(ctx[g], call[g].q, call[g].err).ret = RetErr(call[g].err)
      ]_vars

\* The engine has rejected the query named "nope" for a Context that stores another
\* voice query, parameters and output.
C8_Witness ==
    /\ pc[1] = "svp_commit" /\ call[1].err.isErr
    /\ call[1].q.name = "nope"
    /\ ctx[1].voice = QueryDe /\ ctx[1].rate = 450 /\ ctx[1].Samples # <<>>

\* C9: SetVoiceProperties returns nil exactly when the engine's setVoice has accepted
\* the query, and then the Context stores the five arguments as they were passed, the
\* zero and empty ones too.
C9_AcceptedVoiceIsStored ==
    [][\A g \in Goroutines :
          /\ pc[g] = "vv_call" /\ (\A i \in 1..Len(Catalog) : ~Matches(Catalog[i], call[g].q))
                => call'[g].err.isErr
          /\ pc[g] = "svp_commit" =>
                /\ SetVoiceProperties(ctx[g], call[g].q, call[g].err).ret = RetOK
                      <=> ~call[g].err.isErr
                /\ ~call[g].err.isErr => ctx'[g].voice = call[g].q /\ ctx'[g].isInit
      ]_vars

\* The engine has accepted a query by name alone for a Context that stores a query
\* with a language, a gender, an age and a variant.
C9_Witness ==
    /\ pc[1] = "svp_commit" /\ ~call[1].err.isErr
    /\ call[1].q = SetVoice("en").q
    /\ ctx[1].voice = QueryDe

\* C10: when the SynthesizeText after one that succeeded and left output is about to
\* return nil, Samples and Events hold what the engine delivered during this call and
\* nothing else.
C10_OutputReplaced ==
    \A g \in Goroutines :
        prior[g] /\ pc[g] = "sy_unlock" /\ ~call[g].err.isErr =>
            /\ ctx[g].Samples = delivered[g].samples
            /\ ctx[g].Events = delivered[g].events

\* The second of two successful calls is about to return, with one callback's output
\* where the first call had left some.
C10_Witness ==
    /\ prior[1] /\ pc[1] = "sy_unlock" /\ ~call[1].err.isErr
    /\ call[1].ncb = 1
    /\ delivered[1].samples = ChunkA.samples
    /\ Len(ctx[1].Events) = 1

\* The positions of Context.synthesize's five pushes in their order, the engine function
\* each calls, and the position after the last.
PushPcs == <<"sy_rate", "sy_volume", "sy_pitch", "sy_tone", "sy_voice", "sy_synth">>
PushNames == <<"setRate", "setVolume", "setPitch", "setTone", "setVoice">>

\* The engine after the i-th push of Context cx has succeeded.
Pushed(i, e, cx) ==
    CASE i = 1 -> [e EXCEPT !.rate = cx.rate]
      [] i = 2 -> [e EXCEPT !.volume = cx.volume]
      [] i = 3 -> [e EXCEPT !.pitch = cx.pitch]
      [] i = 4 -> [e EXCEPT !.tone = cx.tone]
      [] i = 5 -> [e EXCEPT !.voice = cx.voice]

\* What the getters return and the voice query: the parameters a Context remembers,
\* whether or not it has been initialized yet.
Remembered(cx) ==
    [rate |-> Rate(cx).ret, volume |-> Volume(cx).ret, pitch |-> Pitch(cx).ret,
     tone |-> Range(cx).ret, voice |-> cx.voice]

\* Where a SynthesizeText is between its call and its return.
SynthesizePcs ==
    {"sy_lock", "sy_rate", "sy_volume", "sy_pitch", "sy_tone", "sy_voice", "sy_synth",
     "sy_cb", "sy_unlock"}

\* C11: SynthesizeText makes its pushes in the order rate, volume, pitch, range, voice
\* query, each from one position it passes once; a push that succeeds changes that one
\* engine parameter to the Context's value and goes to the next; the first that fails
\* leaves the engine as it was and goes straight to the return with that push's error,
\* so no later push and no engine synthesis follows; and from the call to the return
\* the parameters and voice query the Context remembers stay the same.
C11_PushesInOrderAbortAtFirstFailure ==
    [][\A g \in Goroutines :
          /\ \A i \in 1..5 :
                pc[g] = PushPcs[i] /\ pc'[g] # pc[g] =>
                    \/ /\ ~call'[g].err.isErr
                       /\ engine' = Pushed(i, engine, ctx[g])
                       /\ pc'[g] = PushPcs[i + 1]
                    \/ /\ call'[g].err = EngineError(PushNames[i])
                       /\ engine' = engine
                       /\ pc'[g] = "sy_unlock"
          /\ \A i \in 2..6 : pc'[g] = PushPcs[i] /\ pc[g] # pc'[g] => pc[g] = PushPcs[i - 1]
          /\ pc'[g] = "sy_rate" /\ pc[g] # pc'[g] => pc[g] = "sy_lock"
          /\ pc'[g] \in SynthesisPcs => ~call'[g].err.isErr
          /\ pc[g] = "sy_unlock" /\ pc'[g] # pc[g] =>
                pc'[g] = "idle" /\ engine' = engine
          /\ pc[g] = "idle" /\ pc'[g] = "sy_lock" => Remembered(ctx'[g]) = Remembered(ctx[g])
          /\ pc[g] \in SynthesizePcs => Stored(ctx'[g]) = Stored(ctx[g])
      ]_vars

\* The push of the pitch has failed for a Context with a rate and a volume of its own:
\* the engine has the Context's rate and volume and not its pitch, and the call is
\* about to return the error of setPitch.
C11_Witness ==
    /\ pc[1] = "sy_unlock" /\ call[1].err = EngineError("setPitch")
    /\ {"rate", "volume", "pitch"} \subseteq explicit[1]
    /\ engine.rate = ctx[1].rate /\ engine.volume = ctx[1].volume
    /\ engine.pitch # ctx[1].pitch

\* Where a goroutine waits in lock.Lock().
LockPcs == {"lv_lock", "vv_lock", "sy_lock"}

\* C12: a goroutine holds the mutex only inside ListVoices, validVoice or
\* Context.synthesize, so no way of leaving them, a normal return, an engine error at a
\* push or from the synthesis, or the decoder's consistency fault, leaves it held; the
\* goroutine that holds it lets go of it, and the goroutine that waits for it gets it.
C12_LockReleasedOnEveryExit ==
    /\ [](\A g \in Goroutines : lock = g => pc[g] \in EngineOpPcs)
    /\ \A g \in Goroutines : (lock = g) ~> (lock # g)
    /\ \A g \in Goroutines : (pc[g] \in LockPcs) ~> (lock = g)

\* Goroutine 2 waits to synthesize on its Context while goroutine 1's SynthesizeText,
\* aborted by a consistency fault, has yet to run its deferred unlock.
C12_Witness ==
    /\ pc[1] = "sy_unlock" /\ call[1].err = ConsistencyFault /\ lock = 1
    /\ pc[2] = "sy_lock"

\* The place of the first list-terminated record of a well-formed block.
FirstSentinel(block) ==
    CHOOSE i \in 1..Len(block) :
        /\ block[i].type = espeakEVENT_LIST_TERMINATED
        /\ \A j \in 1..(i - 1) : block[j].type # espeakEVENT_LIST_TERMINATED

\* The SynthEvent e is what the record r says: the fixed fields as they are, and of
\* Number, Name and Phoneme the one that goes with the type, the others zero or empty.
EventOfRecord(e, r) ==
    /\ e.Type = r.type /\ e.TextPosition = r.text_position /\ e.Length = r.length
    /\ e.Number = (IF r.type \in {EventWord, EventSentence} THEN r.id.number ELSE 0)
    /\ e.Name = (IF r.type \in {EventMark, EventPlay} THEN r.id.name ELSE "")
    /\ e.Phoneme = (IF r.type = EventPhoneme THEN r.id.string ELSE "")

\* C13: the callback that delivers a block of N records and then the list-terminated
\* record appends N SynthEvents to Events, the i-th of them what the i-th record says.
C13_DecodesEveryRecordInOrder ==
    [][\A g \in Goroutines : \A chunk \in DecodeChunks :
          LET n == Len(chunk.events) - 1
              old == Len(ctx[g].Events)
          IN  FirstSentinel(chunk.events) = n + 1 /\ SynthesizeCallback(g, chunk) =>
                  /\ Len(ctx'[g].Events) = old + n
                  /\ \A i \in 1..n : EventOfRecord(ctx'[g].Events[old + i], chunk.events[i])
      ]_vars

\* A Phoneme record and then a Mark record have been decoded from one block.
C13_Witness ==
    /\ pc[1] = "sy_cb" /\ call[1].ncb = 1
    /\ Len(ctx[1].Events) = 2
    /\ ctx[1].Events[1].Type = EventPhoneme /\ ctx[1].Events[1].Phoneme = "ph"
    /\ ctx[1].Events[1].Number = 0 /\ ctx[1].Events[1].Name = ""
    /\ ctx[1].Events[2].Type = EventMark /\ ctx[1].Events[2].Name = "nm"
    /\ ctx[1].Events[2].TextPosition = 2

\* C14: SetVoice("") returns an error of its own, not the engine's, and the call is one
\* step that changes nothing: not the Context (its voice query, its isInit), not the
\* mutex, which it neither takes nor waits for, and not the engine.
C14_EmptyNameFailsAtOnce ==
    [][\A g \in Goroutines :
          /\ ~SetVoice("").delegate
          /\ SetVoice("").err.isErr /\ SetVoice("").err # EngineError("setVoice")
          /\ CallSetVoice(g, "") =>
                /\ ctx' = ctx /\ lock' = lock /\ engine' = engine
                /\ pc'[g] = "idle" /\ call' = call
      ]_vars

\* Goroutine 2, whose Context is not initialized, can call SetVoice("") while
\* goroutine 1 holds the mutex in a synthesis: the call does not wait.
C14_Witness ==
    /\ pc[2] = "idle" /\ ~ctx[2].isInit
    /\ "" \in ConcurrentInputs(2).names
    /\ ENABLED CallSetVoice(2, "")
    /\ lock = 1 /\ pc[1] = "sy_cb"

\* C15: a callback appends to Events one SynthEvent for each record before the first
\* list-terminated record of its block and nothing else: not that record, and no
\* record after it; and it appends them after what the earlier callbacks of the same
\* synthesis call have appended.
C15_DecoderStopsAtSentinel ==
    [][\A g \in Goroutines : \A chunk \in DecodeChunks \cup {ChunkA, ChunkB} :
          LET n == FirstSentinel(chunk.events) - 1
              old == Len(ctx[g].Events)
          IN  SynthesizeCallback(g, chunk) =>
                  /\ Len(ctx'[g].Events) = old + n
                  /\ SubSeq(ctx'[g].Events, 1, old) = ctx[g].Events
                  /\ \A i \in 1..n :
                        /\ ctx'[g].Events[old + i].Type = chunk.events[i].type
                        /\ ctx'[g].Events[old + i].TextPosition = chunk.events[i].text_position
                  /\ \A i \in 1..(old + n) :
                        ctx'[g].Events[i].Type # espeakEVENT_LIST_TERMINATED
      ]_vars

\* The first callback's block had three records: a Word record, the list-terminated
\* record and one more after it; the second callback's End record follows the Word event.
C15_Witness ==
    /\ pc[1] = "sy_cb" /\ call[1].ncb = 2
    /\ ctx[1].Samples = <<3>> \o ChunkB.samples
    /\ Len(ctx[1].Events) = 2
    /\ ctx[1].Events[1].Type = EventWord /\ ctx[1].Events[1].TextPosition = 1
    /\ ctx[1].Events[2].Type = EventEnd /\ ctx[1].Events[2].TextPosition = 13

\* C16: the parameters of an initialized Context are inside their bounds, a Context
\* inside SynthesizeText is initialized, and so is every value the engine has been
\* given by setRate, setVolume, setPitch and setTone.
C16_ParametersInBounds ==
    \A g \in Goroutines :
        /\ ctx[g].isInit =>
              /\ 80 <= ctx[g].rate /\ ctx[g].rate <= 450
              /\ 0 <= ctx[g].volume
              /\ 0 <= ctx[g].pitch /\ ctx[g].pitch <= 100
              /\ 0 <= ctx[g].tone /\ ctx[g].tone <= 100
        /\ pc[g] \in SynthesizePcs => ctx[g].isInit
        /\ engine.rate = NotPushed \/ (80 <= engine.rate /\ engine.rate <= 450)
        /\ engine.volume = NotPushed \/ 0 <= engine.volume
        /\ engine.pitch = NotPushed \/ (0 <= engine.pitch /\ engine.pitch <= 100)
        /\ engine.tone = NotPushed \/ (0 <= engine.tone /\ engine.tone <= 100)

\* The engine has been given the four parameters of a Context that stores the largest
\* rate and pitch, the smallest range and a volume above 100.
C16_Witness ==
    /\ pc[1] = "sy_voice"
    /\ explicit[1] = {"rate", "volume", "pitch", "tone"}
    /\ engine.rate = 450 /\ engine.volume = 101 /\ engine.pitch = 100 /\ engine.tone = 0

\* C17: a goroutine that calls lock.Lock() does not hold the mutex, and SetVoiceProperties
\* has let go of it when it comes to modify the Context; a goroutine that waits for the
\* mutex waits for another one that can go on; and every operation that has begun
\* returns.
C17_NoDeadlock ==
    /\ [](\A g \in Goroutines :
            /\ pc[g] \in LockPcs \cup {"svp_commit"} => lock # g
            /\ pc[g] \in LockPcs => lock = NoOwner \/ ENABLED UnderLock(lock))
    /\ \A g \in Goroutines : (pc[g] # "idle") ~> (pc[g] = "idle")

\* Goroutine 1 is inside validVoice, called by SetVoiceProperties called by SetVoice,
\* with the mutex, and goroutine 2 waits for it in SynthesizeText.
C17_Witness ==
    /\ pc[1] = "vv_call" /\ call[1].q = SetVoice("nope").q /\ lock = 1
    /\ pc[2] = "sy_lock"

\* C18: a voice query that validVoice gets accepted becomes the engine's voice, whatever
\* Context it is for; but from the voice push of a SynthesizeText on Context h to the
\* return of its engine synthesis the engine's voice is the query Context h stores and
\* no step changes it: the other goroutine is not inside setVoice or listVoices then.
C18_ValidationNeverInsideSynthesis ==
    [][\A g \in Goroutines :
          /\ pc[g] = "vv_call" /\ pc'[g] = "vv_unlock" /\ ~call'[g].err.isErr =>
                engine'.voice = call[g].q
          /\ \A h \in Goroutines \ {g} :
                pc[h] \in SynthesisPcs =>
                    /\ pc[g] \notin {"vv_call", "lv_call"} /\ pc'[g] \notin {"vv_call", "lv_call"}
                    /\ engine.voice = ctx[h].voice
                    /\ engine'.voice = engine.voice
      ]_vars

\* Context 1 stores the voice query named "en", which validVoice has had the engine
\* select; the engine has since been given the other query, which Context 2 stores and
\* is being synthesized with, while goroutine 1 waits in validVoice with "en" once more.
C18_Witness ==
    /\ ctx[1].voice = SetVoice("en").q
    /\ pc[2] = "sy_cb" /\ ctx[2].voice = QueryDe /\ engine.voice = QueryDe
    /\ pc[1] = "vv_lock" /\ call[1].q = SetVoice("en").q

\* The numeric parameters of which two Contexts store different values.
Differing(c1, c2) == {f \in {"rate", "volume", "pitch", "tone"} : Stored(c1)[f] # Stored(c2)[f]}

\* C19: on an initialized Context an accepted setter changes its own field and no other,
\* and a getter changes no field; a setter or getter call as a step changes at most one
\* numeric parameter and not the voice query, Samples or Events; and a SetVoiceProperties
\* that succeeds changes the voice query alone on an initialized Context, and on any
\* Context leaves what the four getters return, Samples and Events as they were.
C19_SettersChangeOnlyTheirOwn ==
    [][\A g \in Goroutines :
          /\ ctx[g].isInit =>
                /\ \A v \in RateInBounds : SetRate(ctx[g], v).ctx = [ctx[g] EXCEPT !.rate = v]
                /\ \A v \in VolumeInBounds :
                      SetVolume(ctx[g], v).ctx = [ctx[g] EXCEPT !.volume = v]
                /\ \A v \in PitchInBounds :
                      /\ SetPitch(ctx[g], v).ctx = [ctx[g] EXCEPT !.pitch = v]
                      /\ SetRange(ctx[g], v).ctx = [ctx[g] EXCEPT !.tone = v]
                /\ Rate(ctx[g]).ctx = ctx[g] /\ Volume(ctx[g]).ctx = ctx[g]
                /\ Pitch(ctx[g]).ctx = ctx[g] /\ Range(ctx[g]).ctx = ctx[g]
                /\ pc[g] = "idle" /\ pc'[g] = "idle" =>
                      /\ Cardinality(Differing(ctx[g], ctx'[g])) <= 1
                      /\ ctx'[g].voice = ctx[g].voice
                      /\ ctx'[g].Samples = ctx[g].Samples /\ ctx'[g].Events = ctx[g].Events
          /\ pc[g] = "svp_commit" /\ pc'[g] = "idle" /\ ~call[g].err.isErr =>
                /\ Rate(ctx'[g]).ret = Rate(ctx[g]).ret
                /\ Volume(ctx'[g]).ret = Volume(ctx[g]).ret
                /\ Pitch(ctx'[g]).ret = Pitch(ctx[g]).ret
                /\ Range(ctx'[g]).ret = Range(ctx[g]).ret
                /\ ctx'[g].Samples = ctx[g].Samples /\ ctx'[g].Events = ctx[g].Events
                /\ ctx[g].isInit => ctx'[g] = [ctx[g] EXCEPT !.voice = call[g].q]
      ]_vars

\* SetVoiceProperties is about to store an accepted query on a Context on which all
\* four setters have stored values other than the defaults and which has output and
\* another voice query.
C19_Witness ==
    /\ pc[1] = "svp_commit" /\ ~call[1].err.isErr /\ call[1].q = QueryDe
    /\ explicit[1] = {"rate", "volume", "pitch", "tone"}
    /\ ctx[1].rate = 80 /\ ctx[1].volume = 101 /\ ctx[1].pitch = 100 /\ ctx[1].tone = 0
    /\ ctx[1].voice = SetVoice("en").q
    /\ ctx[1].Samples # <<>> /\ ctx[1].Events # <<>>

====
